---- MODULE Spec2Model ----
(***************************************************************************)
(* Supervision layer of maestro: the fleet-level Supervisor                *)
(* (src/src/supervisor.rs, Supervisor::run) and the per-service restart    *)
(* loop (SupervisedTask::run; WorkerRuntime::run in src/src/worker/mod.rs  *)
(* is the same loop under other names).                                    *)
(*                                                                         *)
(* Granularity: one step per branch taken at a tokio::select! or at an     *)
(* .await of the task that runs the code. The runtime is the multi-thread  *)
(* tokio runtime (#[tokio::main]), so steps of different tasks interleave  *)
(* freely. A select! without `biased;` checks its branches in random       *)
(* order: when several branches are ready, any of them may be taken.       *)
(***************************************************************************)
EXTENDS Integers, Sequences, FiniteSets, TLC

\* ---------------------------------------------------------------- bounds
\* most services one supervisor registers
MaxWorkers == 2
\* largest Some(k) of RestartPolicy.max_attempts that is enumerated
MaxAttemptsBound == 2
\* most failing loop invocations of one worker (caps the attempt counter
\* when max_attempts = None)
MaxFailures == 3
\* width of u32 in the model of RestartPolicy::delay; usize has twice this
\* width (the proportions of u32 and usize on a 64-bit target)
U32Bits == 3
\* Duration::MAX, in the unit DelayCapSecs is counted in
DurationMax == 1000
\* most IPv4 and most IPv6 addresses of a NetworkInterface
MaxInet == 2
MaxInet6 == 1
\* most connections made to the listener, and most failed accept() calls
MaxConns == 4
MaxAcceptErrs == 2
\* sockets run_udp receives on, and most datagrams sent to one socket
NumSockets == 2
MaxDatagrams == 2
\* longest interface name, and most entries getifaddrs() returns
MaxNameLen == 2
MaxIfAddrs == 2
\* largest value of num_cpus::get()
MaxCores == 2
\* width of i32 in the backlog computation; usize has twice the width
I32Bits == 12

\* ------------------------------------------------------------- constants
\* Duration::from_secs(60), the backoff cap (seconds)
DelayCapSecs == 60

\* base_delay values enumerated (seconds)
BaseDelays == {0, 40}

\* Option<usize>: None is {}, Some(k) is {k}
MaxAttemptsChoices == {{}} \cup {{k} : k \in 0..MaxAttemptsBound}

\* RestartPolicy { max_attempts, base_delay }
RestartPolicy == [max_attempts : MaxAttemptsChoices, base_delay : BaseDelays]

VARIABLES
    policy,       \* Supervisor.policy, copied into every SupervisedTask
    tasks,        \* Supervisor.tasks: the registered services, in order
    supPc,        \* position of Supervisor::run
    result,       \* what Supervisor::run returned
    sigint,       \* the interrupt signal has been delivered to ctrl_c()
    token,        \* root CancellationToken is cancelled
    graceElapsed, \* the 5 s timeout around the join loop has elapsed
    forced,       \* set.abort_all() has been called
    wstate,       \* per worker: lifecycle state
    attempts,     \* per worker: `attempts` of SupervisedTask::run
    invocations,  \* per worker: number of factory() calls so far
    fut,          \* per worker: readiness of the current loop future
    cancelled,    \* per worker: its child token is cancelled
    timerElapsed, \* per worker: the current sleep(delay) has elapsed
    sleepFor,     \* per worker: the delay of the current/last sleep
    dcall,        \* a call of RestartPolicy::delay: argument and outcome
    bnd,          \* a resolve_addrs + bind_tcp_listener run
    tcp,          \* the accept loop of run_tcp and its handler tasks
    udp,          \* the receive tasks of run_udp and their callbacks
    ifc,          \* a call of NetworkInterface::from_str
    ubnd,         \* run_udp up to the spawning of its receive tasks
    lsn           \* a listen() call: the tuning inputs and the backlog passed

vars == <<policy, tasks, supPc, result, sigint, token, graceElapsed, forced,
          wstate, attempts, invocations, fut, cancelled, timerElapsed,
          sleepFor, dcall, bnd, tcp, udp, ifc, ubnd, lsn>>

\* the state used by the specifications of the delay function and of the
\* listener loops
netVars == <<dcall, bnd, tcp, udp, ifc, ubnd, lsn>>

\* value of a netVars component in a specification that does not use it
Off == [pc |-> "off"]

supVars == <<policy, tasks, supPc, result, sigint, token, graceElapsed, forced>>

Workers == DOMAIN wstate

Terminal == {"Stopped", "Exhausted", "Aborted", "Panicked"}

Min(a, b) == IF a <= b THEN a ELSE b

RECURSIVE Pow2(_)
Pow2(e) == IF e <= 0 THEN 1 ELSE 2 * Pow2(e - 1)

\* attempt.saturating_sub(1)
SatSub1(n) == IF n >= 1 THEN n - 1 ELSE 0

\* u32::MAX and usize::MAX
U32Max == Pow2(U32Bits) - 1
UsizeMax == Pow2(2 * U32Bits) - 1

\* `... as u32` on a usize: the low 32 bits are kept
AsU32(n) == n % (U32Max + 1)

\* 2u32.saturating_pow(e): 2^e when it fits u32, u32::MAX otherwise
SaturatingPow2(e) == IF e < U32Bits THEN Pow2(e) ELSE U32Max

\* (variant: no exponential growth, the factor is always one)
factorOne(attempt) == 1

\* `let factor = 2u32.saturating_pow(attempt.saturating_sub(1) as u32)`
factor(attempt) == SaturatingPow2(AsU32(SatSub1(attempt)))

\* `self.base_delay * factor`: Mul<u32> for Duration is a checked
\* multiplication that panics when the product exceeds Duration::MAX
delayPanics(p, attempt) == p.base_delay * factor(attempt) > DurationMax

\* (variant: the product is returned without the 60 s cap)
delayUncapped(p, attempt) == p.base_delay * factor(attempt)

\* RestartPolicy::delay, the value returned when the product does not panic
delay(p, attempt) == Min(p.base_delay * factor(attempt), DelayCapSecs)

\* (variant: the budget test written with `>`)
MaxReachedGt(p, att) == \E max \in p.max_attempts : att > max

\* (variant: None is treated as an exhausted budget)
MaxReachedNoneIsZero(p, att) ==
    p.max_attempts = {} \/ \E max \in p.max_attempts : att >= max

\* `if let Some(max) = policy.max_attempts && attempts >= max`
MaxReached(p, att) == \E max \in p.max_attempts : att >= max

\* (variant: the counter starts again at one on every failure)
BumpAttemptsReset(att, w) == [att EXCEPT ![w] = 1]

\* (variant: one attempt counter shared by all tasks)
BumpAttemptsShared(att, w) == [v \in DOMAIN att |-> att[v] + 1]

\* `attempts += 1` of the task that handles the failure
BumpAttempts(att, w) == [att EXCEPT ![w] = @ + 1]

\* (variant: no early return for an empty task list)
TasksIsEmptyNever(ts) == FALSE

\* self.tasks.is_empty()
TasksIsEmpty(ts) == Len(ts) = 0

\* (variant: a dead service is surfaced as the supervisor's error)
RunResultPropagate(ws) ==
    IF \E w \in DOMAIN ws : ws[w] = "Exhausted" THEN "Err" ELSE "Ok"

\* the value after the shutdown sequence: `Ok(())`
RunResult(ws) == "Ok"

\* (variant: the deadline is not consulted, unfinished means expired)
TimeoutEager(allDone, elapsed) == IF allDone THEN "Ok" ELSE "Elapsed"

\* (variant: the join loop is awaited without a deadline)
TimeoutNever(allDone, elapsed) == IF allDone THEN "Ok" ELSE "Pending"

\* timeout(5s, join loop): the joined future is polled first, the deadline
\* only when it is still pending
Timeout(allDone, elapsed) ==
    IF allDone THEN "Ok" ELSE IF elapsed THEN "Elapsed" ELSE "Pending"

\* `while set.join_next().await.is_some() {}` has run to the end
AllDone(ws) == \A w \in DOMAIN ws : ws[w] \in Terminal

\* (variant: run() also wakes up when every task has finished)
CtrlCReadyOrDone(sig, ws) == sig \/ AllDone(ws)

\* ctrl_c().await completes once the signal has been delivered
CtrlCReady(sig, ws) == sig

Init ==
    /\ policy \in RestartPolicy
    /\ tasks = <<>>
    /\ supPc = "building"
    /\ result = "none"
    /\ sigint = FALSE
    /\ token = FALSE
    /\ graceElapsed = FALSE
    /\ forced = FALSE
    /\ wstate = <<>>
    /\ attempts = <<>>
    /\ invocations = <<>>
    /\ fut = <<>>
    /\ cancelled = <<>>
    /\ timerElapsed = <<>>
    /\ sleepFor = <<>>
    /\ ifc = Off
    /\ lsn = Off
    /\ ubnd = Off
    /\ dcall = Off
    /\ bnd = Off
    /\ tcp = Off
    /\ udp = Off

workerVars == <<wstate, attempts, invocations, fut, cancelled, timerElapsed, sleepFor>>

\* ------------------------------------------------------------ Supervisor
\* Supervisor::add: the service becomes a SupervisedTask holding a copy of
\* the supervisor's policy; the task is identified by its position
Add ==
    /\ supPc = "building"
    /\ Len(tasks) < MaxWorkers
    /\ tasks' = Append(tasks, Len(tasks) + 1)
    /\ UNCHANGED <<policy, supPc, result, sigint, token, graceElapsed, forced>>
    /\ UNCHANGED workerVars
    /\ UNCHANGED netVars

\* Supervisor::run with no registered service
RunEmpty ==
    /\ supPc = "building"
    /\ TasksIsEmpty(tasks)
    /\ supPc' = "returned"
    /\ result' = "Ok"
    /\ UNCHANGED <<policy, tasks, sigint, token, graceElapsed, forced>>
    /\ UNCHANGED workerVars
    /\ UNCHANGED netVars

\* Supervisor::run: the spawn loop
RunSpawn ==
    /\ supPc = "building"
    /\ ~TasksIsEmpty(tasks)
    /\ supPc' = "installing"
    /\ wstate' = [w \in 1..Len(tasks) |-> "Starting"]
    /\ attempts' = [w \in 1..Len(tasks) |-> 0]
    /\ invocations' = [w \in 1..Len(tasks) |-> 0]
    /\ fut' = [w \in 1..Len(tasks) |-> "none"]
    /\ cancelled' = [w \in 1..Len(tasks) |-> token]
    /\ timerElapsed' = [w \in 1..Len(tasks) |-> FALSE]
    /\ sleepFor' = [w \in 1..Len(tasks) |-> 0]
    /\ UNCHANGED <<policy, tasks, result, sigint, token, graceElapsed, forced>>
    /\ UNCHANGED netVars

\* (variant: the tasks are detached from the set, as with tokio::spawn)
DropSetDetached(ws) == ws

\* a task of a dropped JoinSet is aborted
DropSet(ws) == [w \in DOMAIN ws |-> IF ws[w] \in Terminal THEN ws[w] ELSE "Aborted"]

\* ctrl_c(): the handler is installed and run() waits for the signal
CtrlCInstalled ==
    /\ supPc = "installing"
    /\ supPc' = "awaiting"
    /\ UNCHANGED <<policy, tasks, result, sigint, token, graceElapsed, forced>>
    /\ UNCHANGED workerVars
    /\ UNCHANGED netVars

\* ctrl_c().await?: installing the handler fails, run() returns the error
\* and its JoinSet is dropped
CtrlCFailed ==
    /\ supPc = "installing"
    /\ supPc' = "returned"
    /\ result' = "Err"
    /\ wstate' = DropSet(wstate)
    /\ UNCHANGED <<policy, tasks, sigint, token, graceElapsed, forced>>
    /\ UNCHANGED <<attempts, invocations, fut, cancelled, timerElapsed, sleepFor>>
    /\ UNCHANGED netVars

\* the environment delivers the interrupt
Interrupt ==
    /\ supPc = "awaiting"
    /\ ~sigint
    /\ sigint' = TRUE
    /\ UNCHANGED <<policy, tasks, supPc, result, token, graceElapsed, forced>>
    /\ UNCHANGED workerVars
    /\ UNCHANGED netVars

\* run() resumes after ctrl_c() and calls token.cancel()
Cancel ==
    /\ supPc = "awaiting"
    /\ CtrlCReady(sigint, wstate)
    /\ token' = TRUE
    /\ cancelled' = [w \in Workers |-> TRUE]
    /\ supPc' = "grace"
    /\ UNCHANGED <<policy, tasks, result, sigint, graceElapsed, forced>>
    /\ UNCHANGED <<wstate, attempts, invocations, fut, timerElapsed, sleepFor>>
    /\ UNCHANGED netVars

\* 5 s pass after the timeout was armed
GraceElapse ==
    /\ supPc = "grace"
    /\ ~graceElapsed
    /\ graceElapsed' = TRUE
    /\ UNCHANGED <<policy, tasks, supPc, result, sigint, token, forced>>
    /\ UNCHANGED workerVars
    /\ UNCHANGED netVars

\* timeout(..) returned Ok: every task was joined
Graceful ==
    /\ supPc = "grace"
    /\ Timeout(AllDone(wstate), graceElapsed) = "Ok"
    /\ supPc' = "returned"
    /\ result' = RunResult(wstate)
    /\ UNCHANGED <<policy, tasks, sigint, token, graceElapsed, forced>>
    /\ UNCHANGED workerVars
    /\ UNCHANGED netVars

\* timeout(..) returned Err
GraceExpired ==
    /\ supPc = "grace"
    /\ Timeout(AllDone(wstate), graceElapsed) = "Elapsed"
    /\ supPc' = "aborting"
    /\ UNCHANGED <<policy, tasks, result, sigint, token, graceElapsed, forced>>
    /\ UNCHANGED workerVars
    /\ UNCHANGED netVars

\* set.abort_all(), then Ok(())
ForceAbort ==
    /\ supPc = "aborting"
    /\ forced' = TRUE
    /\ wstate' = DropSet(wstate)
    /\ supPc' = "returned"
    /\ result' = RunResult(wstate')
    /\ UNCHANGED <<policy, tasks, sigint, token, graceElapsed>>
    /\ UNCHANGED <<attempts, invocations, fut, cancelled, timerElapsed, sleepFor>>
    /\ UNCHANGED netVars

\* ---------------------------------------------------------------- Worker
\* `let future = factory();` entering the first select!
Invoke(w) ==
    /\ wstate' = [wstate EXCEPT ![w] = "Running"]
    /\ invocations' = [invocations EXCEPT ![w] = @ + 1]
    /\ fut' = [fut EXCEPT ![w] = "pending"]

\* the spawned task is polled for the first time
Start(w) ==
    /\ wstate[w] = "Starting"
    /\ Invoke(w)
    /\ UNCHANGED <<attempts, cancelled, timerElapsed, sleepFor>>
    /\ UNCHANGED supVars
    /\ UNCHANGED netVars

\* the future made by factory() resolves to Err(e), e.g. run_tcp fails to
\* bind its listener
LoopFail(w) ==
    /\ wstate[w] = "Running"
    /\ fut[w] = "pending"
    /\ attempts[w] < MaxFailures
    /\ fut' = [fut EXCEPT ![w] = "err"]
    /\ UNCHANGED <<wstate, attempts, invocations, cancelled, timerElapsed, sleepFor>>
    /\ UNCHANGED supVars
    /\ UNCHANGED netVars

\* the future made by factory() resolves to Ok(())
LoopComplete(w) ==
    /\ wstate[w] = "Running"
    /\ fut[w] = "pending"
    /\ fut' = [fut EXCEPT ![w] = "ok"]
    /\ UNCHANGED <<wstate, attempts, invocations, cancelled, timerElapsed, sleepFor>>
    /\ UNCHANGED supVars
    /\ UNCHANGED netVars

\* (variant: Ok(_) is followed by another iteration of the loop)
ExitNormallyThenRestart(w) ==
    /\ wstate[w] = "Running"
    /\ fut[w] = "ok"
    /\ invocations[w] <= MaxFailures
    /\ Invoke(w)
    /\ UNCHANGED <<attempts, cancelled, timerElapsed, sleepFor>>
    /\ UNCHANGED supVars
    /\ UNCHANGED netVars

\* first select!, branch `res = future`, Ok(_) => break
ExitNormally(w) ==
    /\ wstate[w] = "Running"
    /\ fut[w] = "ok"
    /\ wstate' = [wstate EXCEPT ![w] = "Stopped"]
    /\ UNCHANGED <<attempts, invocations, fut, cancelled, timerElapsed, sleepFor>>
    /\ UNCHANGED supVars
    /\ UNCHANGED netVars

\* first select!, branch `res = future`, Err(e); then `attempts += 1`, the
\* max_attempts test, and either break or the backoff sleep is created
Crash(w) ==
    /\ wstate[w] = "Running"
    /\ fut[w] = "err"
    /\ attempts' = BumpAttempts(attempts, w)
    /\ IF MaxReached(policy, attempts'[w])
         THEN /\ wstate' = [wstate EXCEPT ![w] = "Exhausted"]
              /\ UNCHANGED <<timerElapsed, sleepFor>>
         ELSE IF delayPanics(policy, attempts'[w])
         THEN /\ wstate' = [wstate EXCEPT ![w] = "Panicked"]
              /\ UNCHANGED <<timerElapsed, sleepFor>>
         ELSE /\ wstate' = [wstate EXCEPT ![w] = "BackingOff"]
              /\ timerElapsed' = [timerElapsed EXCEPT ![w] = FALSE]
              /\ sleepFor' = [sleepFor EXCEPT ![w] = delay(policy, attempts'[w])]
    /\ UNCHANGED <<invocations, fut, cancelled>>
    /\ UNCHANGED supVars
    /\ UNCHANGED netVars

\* first select!, branch `_ = token.cancelled()` => break
CancelledRunning(w) ==
    /\ wstate[w] = "Running"
    /\ cancelled[w]
    /\ wstate' = [wstate EXCEPT ![w] = "Stopped"]
    /\ UNCHANGED <<attempts, invocations, fut, cancelled, timerElapsed, sleepFor>>
    /\ UNCHANGED supVars
    /\ UNCHANGED netVars

\* the sleep(delay) timer fires
TimerElapse(w) ==
    /\ wstate[w] = "BackingOff"
    /\ ~timerElapsed[w]
    /\ timerElapsed' = [timerElapsed EXCEPT ![w] = TRUE]
    /\ UNCHANGED <<wstate, attempts, invocations, fut, cancelled, sleepFor>>
    /\ UNCHANGED supVars
    /\ UNCHANGED netVars

\* second select!, branch `_ = sleep(delay)`: next iteration of the loop
Restart(w) ==
    /\ wstate[w] = "BackingOff"
    /\ timerElapsed[w]
    /\ Invoke(w)
    /\ UNCHANGED <<attempts, cancelled, timerElapsed, sleepFor>>
    /\ UNCHANGED supVars
    /\ UNCHANGED netVars

\* second select!, branch `_ = token.cancelled()` => break
CancelledBackoff(w) ==
    /\ wstate[w] = "BackingOff"
    /\ cancelled[w]
    /\ wstate' = [wstate EXCEPT ![w] = "Stopped"]
    /\ UNCHANGED <<attempts, invocations, fut, cancelled, timerElapsed, sleepFor>>
    /\ UNCHANGED supVars
    /\ UNCHANGED netVars

Next ==
    \/ Add
    \/ RunEmpty
    \/ RunSpawn
    \/ CtrlCInstalled
    \/ CtrlCFailed
    \/ Interrupt
    \/ Cancel
    \/ GraceElapse
    \/ Graceful
    \/ GraceExpired
    \/ ForceAbort
    \/ \E w \in Workers : Start(w)
    \/ \E w \in Workers : LoopFail(w)
    \/ \E w \in Workers : LoopComplete(w)
    \/ \E w \in Workers : ExitNormally(w)
    \/ \E w \in Workers : Crash(w)
    \/ \E w \in Workers : CancelledRunning(w)
    \/ \E w \in Workers : TimerElapse(w)
    \/ \E w \in Workers : Restart(w)
    \/ \E w \in Workers : CancelledBackoff(w)

Spec == Init /\ [][Next]_vars

\* the supervisor's own task is scheduled and time passes; nothing is
\* assumed about the worker tasks
FairSpec ==
    /\ Spec
    /\ WF_vars(Cancel)
    /\ WF_vars(GraceElapse)
    /\ WF_vars(Graceful)
    /\ WF_vars(GraceExpired)
    /\ WF_vars(ForceAbort)

TypeOK ==
    /\ policy \in RestartPolicy
    /\ supPc \in {"building", "installing", "awaiting", "grace", "aborting",
                "returned"}
    /\ result \in {"none", "Ok", "Err"}
    /\ \A w \in Workers :
         /\ wstate[w] \in {"Starting", "Running", "BackingOff"} \cup Terminal
         /\ attempts[w] \in 0..MaxFailures
         /\ invocations[w] \in 0..(MaxFailures + 1)

\* ------------------------------------------------- RestartPolicy::delay
\* base_delay values enumerated for calls of delay(): zero, the smallest
\* unit, values around cap / u32::MAX, values around the cap, and values
\* up to Duration::MAX
DelayBases ==
    {0, 1, 8, 9, 40, DelayCapSecs, DelayCapSecs + 1, 143, 500, DurationMax}

\* the supervisor is not used
NoSupervisor ==
    /\ tasks = <<>>
    /\ supPc = "building"
    /\ result = "none"
    /\ sigint = FALSE
    /\ token = FALSE
    /\ graceElapsed = FALSE
    /\ forced = FALSE
    /\ wstate = <<>>
    /\ attempts = <<>>
    /\ invocations = <<>>
    /\ fut = <<>>
    /\ cancelled = <<>>
    /\ timerElapsed = <<>>
    /\ sleepFor = <<>>

\* a caller that holds a usize attempt counter anywhere in its range; like
\* SupervisedTask::run it adds one to the counter and calls delay(counter)
DelayInit ==
    /\ policy \in [max_attempts : {{}}, base_delay : DelayBases]
    /\ NoSupervisor
    /\ ifc = Off
    /\ lsn = Off
    /\ ubnd = Off
    /\ dcall \in [pc : {"idle"}, attempt : 0..(UsizeMax - 1), value : {0},
                  last : {{}}]
    /\ bnd = Off
    /\ tcp = Off
    /\ udp = Off

\* `attempts += 1; ... let delay = self.policy.delay(attempts);`
DelayCall ==
    /\ dcall.pc \in {"idle", "returned"}
    /\ dcall.attempt < UsizeMax
    /\ dcall' = [pc |-> "called", attempt |-> dcall.attempt + 1,
                 value |-> dcall.value,
                 last |-> IF dcall.pc = "returned" THEN {dcall.value} ELSE {}]
    /\ UNCHANGED <<bnd, tcp, udp, ifc, ubnd, lsn>>
    /\ UNCHANGED <<supVars, workerVars>>

\* delay() returns `(self.base_delay * factor).min(Duration::from_secs(60))`
DelayReturn ==
    /\ dcall.pc = "called"
    /\ ~delayPanics(policy, dcall.attempt)
    /\ dcall' = [dcall EXCEPT !.pc = "returned",
                              !.value = delay(policy, dcall.attempt)]
    /\ UNCHANGED <<bnd, tcp, udp, ifc, ubnd, lsn>>
    /\ UNCHANGED <<supVars, workerVars>>

\* delay() panics in `self.base_delay * factor`
DelayPanic ==
    /\ dcall.pc = "called"
    /\ delayPanics(policy, dcall.attempt)
    /\ dcall' = [dcall EXCEPT !.pc = "panicked"]
    /\ UNCHANGED <<bnd, tcp, udp, ifc, ubnd, lsn>>
    /\ UNCHANGED <<supVars, workerVars>>

DelayNext == DelayCall \/ DelayReturn \/ DelayPanic

DelaySpec == DelayInit /\ [][DelayNext]_vars

\* --------------------------------------- resolve_addrs, bind_tcp_listener
\* Ipv4Addr::UNSPECIFIED and Ipv6Addr::UNSPECIFIED
Wild4 == "0.0.0.0"
Wild6 == "::"

\* the unicast addresses enumerated
V4Addrs == {"192.0.2.1", "192.0.2.2"}
V6Addrs == {"2001:db8::1"}

\* SocketAddr::new(ip, port)
SocketAddr(ip, port) == [ip |-> ip, port |-> port]

\* addr.is_ipv6()
is_ipv6(addr) == addr.ip \in V6Addrs \cup {Wild6}

\* Vec<T> of at most n elements
VecUpTo(S, n) == UNION {[1..k -> S] : k \in 0..n}

\* NetworkInterface: the address lists (any Vec, the fields are public)
NetworkInterface == [inet : VecUpTo(V4Addrs, MaxInet),
                     inet6 : VecUpTo(V6Addrs, MaxInet6)]

\* BindMode; ip is "none" except for Specific(ip)
BindMode ==
    {[kind |-> "PreferInterface", ip |-> "none"],
     [kind |-> "BindAll", ip |-> "none"]}
    \cup {[kind |-> "Specific", ip |-> x] : x \in V4Addrs \cup V6Addrs}

\* handler.port() values enumerated
Ports == {0, 8080}

\* (variant: PreferInterface without the wildcard fallback)
resolve_addrsNoFallback(mode, port, iface) ==
    IF mode.kind = "Specific" THEN <<SocketAddr(mode.ip, port)>>
    ELSE IF mode.kind = "BindAll"
    THEN <<SocketAddr(Wild4, port), SocketAddr(Wild6, port)>>
    ELSE [i \in 1..Len(iface.inet) |-> SocketAddr(iface.inet[i], port)]
         \o [j \in 1..Len(iface.inet6) |-> SocketAddr(iface.inet6[j], port)]

\* (variant: Specific(ip) followed by the IPv4 wildcard as a fallback)
resolve_addrsSpecificThenWildcard(mode, port, iface) ==
    IF mode.kind = "Specific"
    THEN <<SocketAddr(mode.ip, port), SocketAddr(Wild4, port)>>
    ELSE IF mode.kind = "BindAll"
    THEN <<SocketAddr(Wild4, port), SocketAddr(Wild6, port)>>
    ELSE LET addrs ==
                 [i \in 1..Len(iface.inet) |-> SocketAddr(iface.inet[i], port)]
                 \o [j \in 1..Len(iface.inet6) |->
                        SocketAddr(iface.inet6[j], port)]
         IN  IF addrs = <<>> THEN <<SocketAddr(Wild4, port)>> ELSE addrs

\* resolve_addrs
resolve_addrs(mode, port, iface) ==
    IF mode.kind = "Specific" THEN <<SocketAddr(mode.ip, port)>>
    ELSE IF mode.kind = "BindAll"
    THEN <<SocketAddr(Wild4, port), SocketAddr(Wild6, port)>>
    ELSE LET addrs ==
                 [i \in 1..Len(iface.inet) |-> SocketAddr(iface.inet[i], port)]
                 \o [j \in 1..Len(iface.inet6) |->
                        SocketAddr(iface.inet6[j], port)]
         IN  IF addrs = <<>> THEN <<SocketAddr(Wild4, port)>> ELSE addrs

\* (variant: the first failed bind ends the `for addr in addrs` loop)
NextCandidateGiveUp(i, n) == n + 1

\* `for addr in addrs`: after a bind() that failed, the next candidate
NextCandidate(i, n) == i + 1

\* run_tcp is called with a handler (bind_mode, port) and an interface
BindInit ==
    /\ policy = [max_attempts |-> {}, base_delay |-> 0]
    /\ NoSupervisor
    /\ ifc = Off
    /\ lsn = Off
    /\ ubnd = Off
    /\ dcall = Off
    /\ bnd \in [pc : {"start"}, mode : BindMode, port : Ports,
                iface : NetworkInterface, addrs : {<<>>}, i : {1},
                tried : {<<>>}, bound : {{}}, result : {"none"}]
    /\ tcp = Off
    /\ udp = Off

\* `let addrs = resolve_addrs(handler.bind_mode(), handler.port(), &iface);`
ResolveAddrs ==
    /\ bnd.pc = "start"
    /\ bnd' = [bnd EXCEPT !.pc = "binding",
                          !.addrs = resolve_addrs(bnd.mode, bnd.port, bnd.iface)]
    /\ UNCHANGED <<dcall, tcp, udp, ifc, ubnd, lsn>>
    /\ UNCHANGED <<supVars, workerVars>>

\* Socket::new, set_reuse_address, set_reuse_port or set_only_v6 fails: `?`
\* returns the io error from bind_tcp_listener and from run_tcp
SocketError ==
    /\ bnd.pc = "binding"
    /\ bnd.i <= Len(bnd.addrs)
    /\ bnd' = [bnd EXCEPT !.pc = "failed", !.result = "Io"]
    /\ UNCHANGED <<dcall, tcp, udp, ifc, ubnd, lsn>>
    /\ UNCHANGED <<supVars, workerVars>>

\* socket.bind(addr) fails: the socket is dropped, next candidate
BindFails ==
    /\ bnd.pc = "binding"
    /\ bnd.i <= Len(bnd.addrs)
    /\ bnd' = [bnd EXCEPT !.tried = Append(@, bnd.addrs[bnd.i]),
                          !.i = NextCandidate(bnd.i, Len(bnd.addrs))]
    /\ UNCHANGED <<dcall, tcp, udp, ifc, ubnd, lsn>>
    /\ UNCHANGED <<supVars, workerVars>>

\* (variant: a successful bind() is followed by the next candidate, as
\* in bind_udp_sockets)
AfterBindContinue(b) ==
    [b EXCEPT !.tried = Append(@, b.addrs[b.i]),
              !.bound = @ \cup {b.addrs[b.i]},
              !.pc = IF b.i = Len(b.addrs) THEN "bound" ELSE "binding",
              !.i = IF b.i = Len(b.addrs) THEN @ ELSE @ + 1]

\* `if socket.bind(..).is_ok() { socket.listen(..)?; ..; return Ok(..) }`:
\* the loop over the candidates is left with this socket
AfterBind(b) ==
    [b EXCEPT !.tried = Append(@, b.addrs[b.i]),
              !.bound = {b.addrs[b.i]},
              !.pc = "bound"]

\* socket.bind(addr) succeeds
BindSucceeds ==
    /\ bnd.pc = "binding"
    /\ bnd.i <= Len(bnd.addrs)
    /\ bnd' = AfterBind(bnd)
    /\ UNCHANGED <<dcall, tcp, udp, ifc, ubnd, lsn>>
    /\ UNCHANGED <<supVars, workerVars>>

\* listen, set_nonblocking or TcpListener::from_std fails after the bind:
\* `?` returns the io error
ListenError ==
    /\ bnd.pc = "bound"
    /\ bnd' = [bnd EXCEPT !.pc = "failed", !.result = "Io"]
    /\ UNCHANGED <<dcall, tcp, udp, ifc, ubnd, lsn>>
    /\ UNCHANGED <<supVars, workerVars>>

\* `return Ok(TcpListener::from_std(socket.into())?)`; run_tcp enters its
\* accept loop
ListenOk ==
    /\ bnd.pc = "bound"
    /\ bnd' = [bnd EXCEPT !.pc = "listening", !.result = "Ok"]
    /\ UNCHANGED <<dcall, tcp, udp, ifc, ubnd, lsn>>
    /\ UNCHANGED <<supVars, workerVars>>

\* the loop over the candidates ends: `Err(Error::NoAddrAvailable)`
NoAddrAvailable ==
    /\ bnd.pc = "binding"
    /\ bnd.i > Len(bnd.addrs)
    /\ bnd' = [bnd EXCEPT !.pc = "failed", !.result = "NoAddrAvailable"]
    /\ UNCHANGED <<dcall, tcp, udp, ifc, ubnd, lsn>>
    /\ UNCHANGED <<supVars, workerVars>>

BindNext ==
    \/ ResolveAddrs
    \/ SocketError
    \/ BindFails
    \/ BindSucceeds
    \/ ListenError
    \/ ListenOk
    \/ NoAddrAvailable

BindSpec == BindInit /\ [][BindNext]_vars

\* ------------------------------------------------- run_tcp: accept loop
Conns == 1..MaxConns

\* (variant: the callback is awaited by the loop that dispatched it)
LoopAfterSpawnAwaited(pos) == "in_callback"

\* `tokio::spawn(async move { h.on_connection(stream, &peer).await; })`
\* returns at once; the loop goes back to where it was
LoopAfterSpawn(pos) == pos

\* `h.on_packet(&buf[..n], s.clone(), &peer).await` inside the loop: the
\* loop is inside the callback until it returns
LoopAfterAwait(pos) == "in_callback"

\* run_tcp has bound its listener and is at `listener.accept().await`
TcpInit ==
    /\ policy = [max_attempts |-> {}, base_delay |-> 0]
    /\ NoSupervisor
    /\ ifc = Off
    /\ lsn = Off
    /\ ubnd = Off
    /\ dcall = Off
    /\ bnd = Off
    /\ tcp = [pc |-> "accepting", backlog |-> <<>>, next |-> 1,
              handler |-> [c \in Conns |-> "none"], errs |-> 0]
    /\ udp = Off

\* a peer completes a connection; it waits in the listen queue
Connect ==
    /\ tcp.pc # "off"
    /\ tcp.next <= MaxConns
    /\ tcp' = [tcp EXCEPT !.backlog = Append(@, tcp.next), !.next = @ + 1]
    /\ UNCHANGED <<dcall, bnd, udp, ifc, ubnd, lsn>>
    /\ UNCHANGED <<supVars, workerVars>>

\* `Ok((stream, peer))`: the callback is spawned as a task of its own
Accept ==
    /\ tcp.pc = "accepting"
    /\ tcp.backlog # <<>>
    /\ tcp' = [tcp EXCEPT !.backlog = Tail(@),
                          !.handler[Head(tcp.backlog)] = "running",
                          !.pc = LoopAfterSpawn(tcp.pc)]
    /\ UNCHANGED <<dcall, bnd, udp, ifc, ubnd, lsn>>
    /\ UNCHANGED <<supVars, workerVars>>

\* `Err(e)`: accept() failed; logged, next iteration
AcceptErr ==
    /\ tcp.pc = "accepting"
    /\ tcp.errs < MaxAcceptErrs
    /\ tcp' = [tcp EXCEPT !.errs = @ + 1]
    /\ UNCHANGED <<dcall, bnd, udp, ifc, ubnd, lsn>>
    /\ UNCHANGED <<supVars, workerVars>>

\* on_connection returns in its task; the stream is dropped (closed)
HandlerFinish(c) ==
    /\ tcp.pc # "off"
    /\ tcp.handler[c] = "running"
    /\ tcp' = [tcp EXCEPT !.handler[c] = "done"]
    /\ UNCHANGED <<dcall, bnd, udp, ifc, ubnd, lsn>>
    /\ UNCHANGED <<supVars, workerVars>>

TcpNext ==
    \/ Connect
    \/ Accept
    \/ AcceptErr
    \/ \E c \in Conns : HandlerFinish(c)

TcpSpec == TcpInit /\ [][TcpNext]_vars

\* ------------------------------------------------ run_udp: receive tasks
Sockets == 1..NumSockets

\* run_udp has bound its sockets and spawned one receive task per socket
UdpInit ==
    /\ policy = [max_attempts |-> {}, base_delay |-> 0]
    /\ NoSupervisor
    /\ ifc = Off
    /\ lsn = Off
    /\ ubnd = Off
    /\ dcall = Off
    /\ bnd = Off
    /\ tcp = Off
    /\ udp = [pc |-> "joining",
              sock |-> [s \in Sockets |->
                          [pc |-> "receiving", arrived |-> 0, received |-> 0,
                           returned |-> 0, peers |-> <<>>, calls |-> <<>>]]]

\* the peers that send datagrams
Peers == {"p1", "p2"}

\* a datagram of peer p arrives in the receive buffer of socket s
ArriveFrom(s, p) ==
    /\ udp.pc # "off"
    /\ udp.sock[s].arrived < MaxDatagrams
    /\ udp' = [udp EXCEPT !.sock[s].arrived = @ + 1,
                          !.sock[s].peers = Append(@, p)]
    /\ UNCHANGED <<dcall, bnd, tcp, ifc, ubnd, lsn>>
    /\ UNCHANGED <<supVars, workerVars>>

\* a datagram arrives in the receive buffer of socket s
Arrive(s) == \E p \in Peers : ArriveFrom(s, p)

\* (variant: recv_from returns the datagram that arrived last)
NextDatagramNewest(arrived, received) == arrived

\* `s.recv_from(&mut buf)`: the socket's receive buffer is a queue, the
\* datagram returned is the oldest one not yet returned
NextDatagram(arrived, received) == received + 1

\* `Ok((n, peer)) => h.on_packet(&buf[..n], s.clone(), &peer).await`
RecvFrom(s) ==
    /\ udp.pc # "off"
    /\ udp.sock[s].pc = "receiving"
    /\ udp.sock[s].received < udp.sock[s].arrived
    /\ udp' = [udp EXCEPT
                 !.sock[s].received = @ + 1,
                 !.sock[s].calls =
                     Append(@, [peer |-> udp.sock[s].peers[
                                    NextDatagram(udp.sock[s].arrived,
                                                 udp.sock[s].received)],
                                sock |-> s]),
                 !.sock[s].pc = LoopAfterAwait(@)]
    /\ UNCHANGED <<dcall, bnd, tcp, ifc, ubnd, lsn>>
    /\ UNCHANGED <<supVars, workerVars>>

\* on_packet returns; the task goes back to recv_from
CallbackReturn(s) ==
    /\ udp.pc # "off"
    /\ udp.sock[s].pc = "in_callback"
    /\ udp' = [udp EXCEPT !.sock[s].returned = @ + 1,
                          !.sock[s].pc = "receiving"]
    /\ UNCHANGED <<dcall, bnd, tcp, ifc, ubnd, lsn>>
    /\ UNCHANGED <<supVars, workerVars>>

\* (variant: a receive error ends the receive task of every socket)
AfterRecvErrAll(u, s) ==
    [u EXCEPT !.sock = [t \in DOMAIN u.sock |-> [u.sock[t] EXCEPT !.pc = "ended"]]]

\* `Err(e) => { .. break; }` inside the task spawned for socket s: that
\* task leaves its loop
AfterRecvErr(u, s) == [u EXCEPT !.sock[s].pc = "ended"]

\* `Err(e) => break`: recv_from fails and the task of socket s ends
RecvErr(s) ==
    /\ udp.pc # "off"
    /\ udp.sock[s].pc = "receiving"
    /\ udp' = AfterRecvErr(udp, s)
    /\ UNCHANGED <<dcall, bnd, tcp, ifc, ubnd, lsn>>
    /\ UNCHANGED <<supVars, workerVars>>

\* `while set.join_next().await.is_some() {}` ends; `Ok(())`
JoinedAll ==
    /\ udp.pc = "joining"
    /\ \A s \in Sockets : udp.sock[s].pc = "ended"
    /\ udp' = [udp EXCEPT !.pc = "returned"]
    /\ UNCHANGED <<dcall, bnd, tcp, ifc, ubnd, lsn>>
    /\ UNCHANGED <<supVars, workerVars>>

UdpNext ==
    \/ \E s \in Sockets : Arrive(s)
    \/ \E s \in Sockets : RecvFrom(s)
    \/ \E s \in Sockets : CallbackReturn(s)
    \/ \E s \in Sockets : RecvErr(s)
    \/ JoinedAll

UdpSpec == UdpInit /\ [][UdpNext]_vars

\* ------------------------------ one supervised service and its loop future
\* The worker task of one service together with the future its factory
\* makes: run_tcp (binding, then the accept loop) or run_udp (the receive
\* tasks, from the point where the sockets are bound). The supervisor
\* appears as the source of the cancellation, with its grace period and
\* its hard abort.

\* (variant: run_tcp returns Ok(()) once it is listening and idle)
StreamOutcomeOkWhenIdle(b, t) ==
    IF b.pc = "failed" THEN "err"
    ELSE IF t.pc = "accepting" /\ t.backlog = <<>> THEN "ok"
    ELSE "pending"

\* (variant: a failed accept() makes run_tcp return the error)
StreamOutcomeAcceptErrFatal(b, t) ==
    IF b.pc = "failed" \/ (t.pc = "accepting" /\ t.errs >= 1) THEN "err"
    ELSE "pending"

\* what the future of run_tcp resolves to: the error of
\* `bind_tcp_listener(&addrs)?`, and nothing once it is in `loop { .. }`
StreamOutcome(b, t) == IF b.pc = "failed" THEN "err" ELSE "pending"

\* (variant: a receive error of any socket task is escalated)
DatagramOutcomeEscalate(u) ==
    IF u.pc # "returned" THEN "pending"
    ELSE IF \E s \in DOMAIN u.sock : u.sock[s].pc = "ended" THEN "err"
    ELSE "ok"

\* what the future of run_udp resolves to: `Ok(())` after the join loop
DatagramOutcome(u) == IF u.pc = "returned" THEN "ok" ELSE "pending"

\* (variant: the handler tasks end with the loop that spawned them)
DropStreamWithHandlers(r) ==
    IF r.pc = "off" THEN r
    ELSE IF "handler" \in DOMAIN r
    THEN [r EXCEPT !.pc = "dropped",
                   !.handler = [c \in DOMAIN r.handler |->
                                  IF r.handler[c] = "running" THEN "aborted"
                                  ELSE r.handler[c]]]
    ELSE [r EXCEPT !.pc = "dropped"]

\* the unfinished run_tcp is dropped: its frame (candidate list, sockets,
\* listener) is destroyed; the tasks made by tokio::spawn are detached
\* and are not touched
DropStream(r) == IF r.pc = "off" THEN r ELSE [r EXCEPT !.pc = "dropped"]

\* the unfinished run_udp is dropped: dropping its JoinSet aborts every
\* receive task, and with it the on_packet call the task is awaiting
DropDatagram(u) ==
    IF u.pc = "off" THEN u
    ELSE [u EXCEPT !.pc = "dropped",
                   !.sock = [s \in DOMAIN u.sock |->
                               [u.sock[s] EXCEPT !.pc =
                                   IF @ = "in_callback" THEN "callback_aborted"
                                   ELSE IF @ = "receiving" THEN "aborted"
                                   ELSE @]]]

\* Supervisor::run has spawned the task of one service and awaits ctrl_c;
\* the task is in its first select! on a future that has not started
ServiceInit ==
    /\ policy \in [max_attempts : {{}, {2}}, base_delay : {0}]
    /\ tasks = <<1>>
    /\ supPc = "awaiting"
    /\ result = "none"
    /\ sigint = FALSE
    /\ token = FALSE
    /\ graceElapsed = FALSE
    /\ forced = FALSE
    /\ wstate = <<"Running">>
    /\ attempts = <<0>>
    /\ invocations = <<1>>
    /\ fut = <<"pending">>
    /\ cancelled = <<FALSE>>
    /\ timerElapsed = <<FALSE>>
    /\ sleepFor = <<0>>
    /\ ifc = Off
    /\ lsn = Off
    /\ ubnd = Off
    /\ dcall = Off
    /\ \/ /\ bnd = [pc |-> "start",
                     mode |-> [kind |-> "BindAll", ip |-> "none"],
                     port |-> 8080, iface |-> [inet |-> <<>>, inet6 |-> <<>>],
                     addrs |-> <<>>, i |-> 1, tried |-> <<>>, bound |-> {},
                     result |-> "none"]
          /\ tcp = Off
          /\ udp = Off
       \/ /\ bnd = Off
          /\ tcp = Off
          /\ udp = [pc |-> "joining",
                    sock |-> [s \in Sockets |->
                                [pc |-> "receiving", arrived |-> 0,
                                 received |-> 0, returned |-> 0,
                                 peers |-> <<>>, calls |-> <<>>]]]

\* run_tcp goes from `bind_tcp_listener(&addrs)?` into `loop { .. }`
EnterAcceptLoop ==
    /\ bnd.pc = "listening"
    /\ tcp = Off
    /\ tcp' = [pc |-> "accepting", backlog |-> <<>>, next |-> 1,
               handler |-> [c \in Conns |-> "none"], errs |-> 0]
    /\ UNCHANGED <<dcall, bnd, udp, ifc, ubnd, lsn>>
    /\ UNCHANGED <<supVars, workerVars>>

\* whether the run_tcp invocation holds a bound socket: from the bind()
\* that succeeded until the future has returned or has been dropped
PortHeld(b) == b.pc \notin {"off", "reported", "dropped"} /\ b.bound # {}

\* (variant: the bound socket outlives the run_tcp that returned)
ReturnStreamKeepListener(b) == b

\* run_tcp returns through `?`: its locals, the socket among them, are
\* dropped before the worker sees the result
ReturnStream(b) == [b EXCEPT !.pc = "reported"]

\* the future of run_tcp resolves (it is polled by the first select!)
StreamResolves(w) ==
    /\ wstate[w] = "Running"
    /\ fut[w] = "pending"
    /\ bnd.pc # "off"
    /\ StreamOutcome(bnd, tcp) # "pending"
    /\ attempts[w] < MaxFailures
    /\ fut' = [fut EXCEPT ![w] = StreamOutcome(bnd, tcp)]
    /\ bnd' = ReturnStream(bnd)
    /\ UNCHANGED <<wstate, attempts, invocations, cancelled, timerElapsed, sleepFor>>
    /\ UNCHANGED <<dcall, tcp, udp, ifc, ubnd, lsn>>
    /\ UNCHANGED supVars

\* the future of run_udp resolves
DatagramResolves(w) ==
    /\ wstate[w] = "Running"
    /\ fut[w] = "pending"
    /\ udp.pc # "off"
    /\ DatagramOutcome(udp) # "pending"
    /\ attempts[w] < MaxFailures
    /\ fut' = [fut EXCEPT ![w] = DatagramOutcome(udp)]
    /\ UNCHANGED <<wstate, attempts, invocations, cancelled, timerElapsed, sleepFor>>
    /\ UNCHANGED netVars
    /\ UNCHANGED supVars

\* after a restart the future made by `factory()` is a new run_tcp, which
\* starts from its first line
StartStream(w) ==
    /\ wstate[w] = "Running"
    /\ fut[w] = "pending"
    /\ bnd.pc = "reported"
    /\ bnd' = [bnd EXCEPT !.pc = "start", !.addrs = <<>>, !.i = 1,
                          !.tried = <<>>, !.bound = {}, !.result = "none"]
    /\ UNCHANGED <<dcall, tcp, udp, ifc, ubnd, lsn>>
    /\ UNCHANGED <<supVars, workerVars>>

\* first select!, branch `_ = token.cancelled()` => break: the branch
\* that lost, the loop future, is dropped unfinished
DropLoop(w) ==
    /\ wstate[w] = "Running"
    /\ cancelled[w]
    /\ wstate' = [wstate EXCEPT ![w] = "Stopped"]
    /\ bnd' = DropStream(bnd)
    /\ tcp' = DropStream(tcp)
    /\ udp' = DropDatagram(udp)
    /\ UNCHANGED <<attempts, invocations, fut, cancelled, timerElapsed, sleepFor>>
    /\ UNCHANGED <<dcall, ifc, ubnd, lsn>>
    /\ UNCHANGED supVars

\* set.abort_all(), then Ok(()): the worker task that has not finished
\* is aborted and the loop future it holds is dropped with it
ForceAbortService ==
    /\ supPc = "aborting"
    /\ forced' = TRUE
    /\ wstate' = DropSet(wstate)
    /\ supPc' = "returned"
    /\ result' = RunResult(wstate')
    /\ IF \E w \in Workers : wstate[w] = "Running"
         THEN /\ bnd' = DropStream(bnd)
              /\ tcp' = DropStream(tcp)
              /\ udp' = DropDatagram(udp)
         ELSE UNCHANGED <<bnd, tcp, udp>>
    /\ UNCHANGED <<policy, tasks, sigint, token, graceElapsed>>
    /\ UNCHANGED <<attempts, invocations, fut, cancelled, timerElapsed, sleepFor>>
    /\ UNCHANGED <<dcall, ifc, ubnd, lsn>>

ServiceNext ==
    \/ Interrupt
    \/ Cancel
    \/ GraceElapse
    \/ Graceful
    \/ GraceExpired
    \/ ForceAbortService
    \/ ResolveAddrs
    \/ SocketError
    \/ BindFails
    \/ BindSucceeds
    \/ ListenError
    \/ ListenOk
    \/ NoAddrAvailable
    \/ EnterAcceptLoop
    \/ Connect
    \/ Accept
    \/ AcceptErr
    \/ \E c \in Conns : HandlerFinish(c)
    \/ \E s \in Sockets : ArriveFrom(s, "p1")
    \/ \E s \in Sockets : RecvFrom(s)
    \/ \E s \in Sockets : CallbackReturn(s)
    \/ \E s \in Sockets : RecvErr(s)
    \/ JoinedAll
    \/ \E w \in Workers : StreamResolves(w)
    \/ \E w \in Workers : DatagramResolves(w)
    \/ \E w \in Workers : StartStream(w)
    \/ \E w \in Workers : DropLoop(w)
    \/ \E w \in Workers : ExitNormally(w)
    \/ \E w \in Workers : Crash(w)
    \/ \E w \in Workers : TimerElapse(w)
    \/ \E w \in Workers : Restart(w)
    \/ \E w \in Workers : CancelledBackoff(w)

ServiceSpec == ServiceInit /\ [][ServiceNext]_vars

\* ------------------------------------------- NetworkInterface::from_str
\* characters of interface names: a white-space character and two others
NameChars == {" ", "e", "f"}

\* the &str arguments enumerated
Names == VecUpTo(NameChars, MaxNameLen)

\* char::is_whitespace
is_whitespace(c) == c = " "

\* str::trim_start, str::trim_end, str::trim
RECURSIVE trim_start(_)
trim_start(n) ==
    IF n = <<>> THEN n
    ELSE IF is_whitespace(Head(n)) THEN trim_start(Tail(n)) ELSE n

RECURSIVE trim_end(_)
trim_end(n) ==
    IF n = <<>> THEN n
    ELSE IF is_whitespace(n[Len(n)]) THEN trim_end(SubSeq(n, 1, Len(n) - 1))
    ELSE n

trim(n) == trim_end(trim_start(n))

\* the interfaces the OS has, by name, and their indexes
OsInterfaces == {<<"e">>, <<"e", "e">>}
OsIndex(n) == Len(n)

\* first bytes of the hardware addresses the OS may report, and the
\* first bytes rand::fill may produce (representatives of every value of
\* the two low bits, at both ends of the byte range)
OsMacs == {0, 171}
RandBytes == {0, 1, 2, 3, 252, 253, 254, 255}

\* the entries getifaddrs() may yield: one address of one interface each
\* (`addr` is read for V4 and V6 only, `mac` for Mac only)
IfAddr ==
    [name : OsInterfaces, kind : {"V4"}, addr : {"192.0.2.1"}, mac : {0}]
    \cup [name : OsInterfaces, kind : {"V6"}, addr : V6Addrs, mac : {0}]
    \cup [name : OsInterfaces, kind : {"Mac"}, addr : {""}, mac : OsMacs]

\* `for iface in getifaddrs()? { if iface.name == name { match .. } }`
RECURSIVE collect(_, _, _)
collect(entries, name, info) ==
    IF entries = <<>> THEN info
    ELSE LET e == Head(entries)
             next ==
                 IF e.name # name THEN info
                 ELSE IF e.kind = "V4"
                 THEN [info EXCEPT !.inet = Append(@, e.addr)]
                 ELSE IF e.kind = "V6"
                 THEN [info EXCEPT !.inet6 = Append(@, e.addr)]
                 ELSE [info EXCEPT !.mac = {e.mac}]
         IN  collect(Tail(entries), name, next)

\* (variant: the random byte is used as it is)
generate_macUnmasked(b) == b

\* generate_mac, first byte: `(mac[0] & 0b11111110) | 0b00000010`
generate_mac(b) ==
    LET cleared == b - (b % 2)
    IN  IF (cleared \div 2) % 2 = 1 THEN cleared ELSE cleared + 2

\* from_str is called with a name, on a system whose getifaddrs() would
\* yield the entries `os`
IfaceInit ==
    /\ policy = [max_attempts |-> {}, base_delay |-> 0]
    /\ NoSupervisor
    /\ dcall = Off
    /\ bnd = Off
    /\ tcp = Off
    /\ udp = Off
    /\ ubnd = Off
    /\ lsn = Off
    /\ ifc \in [pc : {"start"}, name : Names, os : VecUpTo(IfAddr, MaxIfAddrs),
                oscalls : {0}, index : {0}, inet : {<<>>}, inet6 : {<<>>},
                mac : {{}}, result : {"none"}]

\* `if name.trim().is_empty() { return Err(InvalidInterfaceName(..)) }`
InvalidName ==
    /\ ifc.pc = "start"
    /\ trim(ifc.name) = <<>>
    /\ ifc' = [ifc EXCEPT !.pc = "done", !.result = "InvalidInterfaceName"]
    /\ UNCHANGED <<dcall, bnd, tcp, udp, ubnd, lsn>>
    /\ UNCHANGED <<supVars, workerVars>>

\* `if_nametoindex(name)?` fails: the OS has no interface of that name;
\* the io error is converted by From<std::io::Error>
NameToIndexFails ==
    /\ ifc.pc = "start"
    /\ trim(ifc.name) # <<>>
    /\ ifc.name \notin OsInterfaces
    /\ ifc' = [ifc EXCEPT !.pc = "done", !.result = "Io", !.oscalls = @ + 1]
    /\ UNCHANGED <<dcall, bnd, tcp, udp, ubnd, lsn>>
    /\ UNCHANGED <<supVars, workerVars>>

\* `let index = if_nametoindex(name)?;` succeeds
NameToIndexOk ==
    /\ ifc.pc = "start"
    /\ trim(ifc.name) # <<>>
    /\ ifc.name \in OsInterfaces
    /\ ifc' = [ifc EXCEPT !.pc = "listing", !.index = OsIndex(ifc.name),
                          !.oscalls = @ + 1]
    /\ UNCHANGED <<dcall, bnd, tcp, udp, ubnd, lsn>>
    /\ UNCHANGED <<supVars, workerVars>>

\* `getifaddrs()?` fails
GetIfAddrsFails ==
    /\ ifc.pc = "listing"
    /\ ifc' = [ifc EXCEPT !.pc = "done", !.result = "Io", !.oscalls = @ + 1]
    /\ UNCHANGED <<dcall, bnd, tcp, udp, ubnd, lsn>>
    /\ UNCHANGED <<supVars, workerVars>>

\* the loop over getifaddrs(), then the test for no address at all and
\* the test for a missing hardware address
CollectAddrs ==
    /\ ifc.pc = "listing"
    /\ LET info == collect(ifc.os, ifc.name,
                           [inet |-> <<>>, inet6 |-> <<>>, mac |-> {}])
       IN  ifc' = [ifc EXCEPT
                     !.oscalls = @ + 1,
                     !.inet = info.inet,
                     !.inet6 = info.inet6,
                     !.mac = info.mac,
                     !.pc = IF info.inet = <<>> /\ info.inet6 = <<>> THEN "done"
                            ELSE IF info.mac = {} THEN "need_mac"
                            ELSE "done",
                     !.result = IF info.inet = <<>> /\ info.inet6 = <<>>
                                THEN "InterfaceNotFound"
                                ELSE IF info.mac = {} THEN "none"
                                ELSE "Ok"]
    /\ UNCHANGED <<dcall, bnd, tcp, udp, ubnd, lsn>>
    /\ UNCHANGED <<supVars, workerVars>>

\* `information.mac = Some(information.generate_mac())`; `Ok(information)`
GenerateMac ==
    /\ ifc.pc = "need_mac"
    /\ \E b \in RandBytes :
           ifc' = [ifc EXCEPT !.mac = {generate_mac(b)}, !.pc = "done",
                              !.result = "Ok"]
    /\ UNCHANGED <<dcall, bnd, tcp, udp, ubnd, lsn>>
    /\ UNCHANGED <<supVars, workerVars>>

IfaceNext ==
    \/ InvalidName
    \/ NameToIndexFails
    \/ NameToIndexOk
    \/ GetIfAddrsFails
    \/ CollectAddrs
    \/ GenerateMac

IfaceSpec == IfaceInit /\ [][IfaceNext]_vars

\* ------------------------------------ run_udp: bind_udp_sockets, spawning
\* handler.multicast_addrs(): an IPv4 group, an IPv6 group, both, none
Group4 == "224.0.0.251"
Group6 == "ff02::fb"
McastChoices == {<<>>, <<Group4>>, <<Group6>>, <<Group4, Group6>>}

\* the interfaces run_udp is given: without address, with one IPv4
\* address, with one IPv4 and one IPv6 address
UdpIfaces ==
    {[inet |-> <<>>, inet6 |-> <<>>],
     [inet |-> <<"192.0.2.1">>, inet6 |-> <<>>],
     [inet |-> <<"192.0.2.1">>, inet6 |-> <<"2001:db8::1">>]}

\* (variant: one socket per address, whatever the number of cores)
SocketsPerAddrOne(num_cores) == 1

\* `for _ in 0..num_cores`: iterations of the inner loop for one address
SocketsPerAddr(num_cores) == num_cores

\* join_multicast: the membership asked for; an IPv4 group through
\* `iface.inet.first()` or else UNSPECIFIED, an IPv6 group through
\* iface.index
join_multicast(group, iface) ==
    IF group = Group4
    THEN [group |-> group,
          via |-> IF iface.inet # <<>> THEN iface.inet[1] ELSE Wild4]
    ELSE [group |-> group, via |-> "index"]

\* whether the OS can accept the join at all: a socket of domain IPV4
\* has no IPv6 membership option; every other join succeeds or fails
\* (no multicast route, membership limit, option not supported)
JoinCanSucceed(addr, group) == is_ipv6(addr) \/ group = Group4

\* `for group in mcast { join_multicast(&udp, group, iface); }` with
\* `let _ =` on every result: the sets of memberships the socket can
\* have afterwards
JoinOutcomes(addr, mcast, iface) ==
    {{join_multicast(g, iface) : g \in G} :
        G \in SUBSET {mcast[j] : j \in
                        {i \in 1..Len(mcast) : JoinCanSucceed(addr, mcast[i])}}}

\* the loop position after one iteration of the inner loop
AdvanceCore(u) ==
    IF u.k + 1 < SocketsPerAddr(u.cores)
    THEN [u EXCEPT !.k = @ + 1]
    ELSE [u EXCEPT !.a = @ + 1, !.k = 0]

\* (variant: the first failed bind() ends the loops with NoAddrAvailable)
AfterFailedBindGiveUp(u) ==
    [u EXCEPT !.pc = "failed", !.result = "NoAddrAvailable", !.sockets = <<>>]

\* `if socket.bind(..).is_ok() { .. }` without else: after a failed
\* bind() the loops go on
AfterFailedBind(u) == AdvanceCore(u)

\* run_udp is called with a handler (bind_mode, port, multicast_addrs)
\* and an interface, on a machine with `cores` cores
UdpBindInit ==
    /\ policy = [max_attempts |-> {}, base_delay |-> 0]
    /\ NoSupervisor
    /\ ifc = Off
    /\ lsn = Off
    /\ dcall = Off
    /\ bnd = Off
    /\ tcp = Off
    /\ udp = Off
    /\ ubnd \in [pc : {"start"}, mode : BindMode, port : {8080},
                 iface : UdpIfaces, mcast : McastChoices,
                 cores : 1..MaxCores, addrs : {<<>>}, a : {1}, k : {0},
                 sockets : {<<>>}, failed : {0}, result : {"none"},
                 tasks : {0}]

\* `let addrs = resolve_addrs(..)`, `let num_cores = num_cpus::get()`
UdpResolveAddrs ==
    /\ ubnd.pc = "start"
    /\ ubnd' = [ubnd EXCEPT !.pc = "binding",
                            !.addrs = resolve_addrs(ubnd.mode, ubnd.port,
                                                    ubnd.iface)]
    /\ UNCHANGED <<dcall, bnd, tcp, udp, ifc, lsn>>
    /\ UNCHANGED <<supVars, workerVars>>

\* Socket::new, set_reuse_address, set_reuse_port, set_only_v6 or
\* set_broadcast fails: `?` returns the io error; the sockets bound so
\* far are dropped with the Vec
UdpSocketError ==
    /\ ubnd.pc = "binding"
    /\ ubnd.a <= Len(ubnd.addrs)
    /\ ubnd' = [ubnd EXCEPT !.pc = "failed", !.result = "Io",
                            !.sockets = <<>>]
    /\ UNCHANGED <<dcall, bnd, tcp, udp, ifc, lsn>>
    /\ UNCHANGED <<supVars, workerVars>>

\* socket.bind(addr) fails: the socket is dropped, next iteration
UdpBindFails ==
    /\ ubnd.pc = "binding"
    /\ ubnd.a <= Len(ubnd.addrs)
    /\ ubnd' = [AfterFailedBind(ubnd) EXCEPT !.failed = @ + 1]
    /\ UNCHANGED <<dcall, bnd, tcp, udp, ifc, lsn>>
    /\ UNCHANGED <<supVars, workerVars>>

\* socket.bind(addr) succeeds but set_nonblocking or UdpSocket::from_std
\* fails: `?` returns the io error
UdpAfterBindError ==
    /\ ubnd.pc = "binding"
    /\ ubnd.a <= Len(ubnd.addrs)
    /\ ubnd' = [ubnd EXCEPT !.pc = "failed", !.result = "Io",
                            !.sockets = <<>>]
    /\ UNCHANGED <<dcall, bnd, tcp, udp, ifc, lsn>>
    /\ UNCHANGED <<supVars, workerVars>>

\* socket.bind(addr) succeeds: the groups are joined, whatever each join
\* returns, and the socket is pushed
UdpBindSucceeds ==
    /\ ubnd.pc = "binding"
    /\ ubnd.a <= Len(ubnd.addrs)
    /\ \E joined \in JoinOutcomes(ubnd.addrs[ubnd.a], ubnd.mcast, ubnd.iface) :
           ubnd' = [AdvanceCore(ubnd) EXCEPT
                      !.sockets = Append(@, [addr |-> ubnd.addrs[ubnd.a],
                                             joined |-> joined])]
    /\ UNCHANGED <<dcall, bnd, tcp, udp, ifc, lsn>>
    /\ UNCHANGED <<supVars, workerVars>>

\* `Ok(sockets)` with an empty Vec: `return Err(Error::NoAddrAvailable)`
UdpNoSockets ==
    /\ ubnd.pc = "binding"
    /\ ubnd.a > Len(ubnd.addrs)
    /\ ubnd.sockets = <<>>
    /\ ubnd' = [ubnd EXCEPT !.pc = "failed", !.result = "NoAddrAvailable"]
    /\ UNCHANGED <<dcall, bnd, tcp, udp, ifc, lsn>>
    /\ UNCHANGED <<supVars, workerVars>>

\* `Ok(sockets)`: `for socket in sockets { .. set.spawn(..) }`, then the
\* join loop
UdpSpawnTasks ==
    /\ ubnd.pc = "binding"
    /\ ubnd.a > Len(ubnd.addrs)
    /\ ubnd.sockets # <<>>
    /\ ubnd' = [ubnd EXCEPT !.pc = "joining", !.result = "Ok",
                            !.tasks = Len(ubnd.sockets)]
    /\ UNCHANGED <<dcall, bnd, tcp, udp, ifc, lsn>>
    /\ UNCHANGED <<supVars, workerVars>>

UdpBindNext ==
    \/ UdpResolveAddrs
    \/ UdpSocketError
    \/ UdpBindFails
    \/ UdpAfterBindError
    \/ UdpBindSucceeds
    \/ UdpNoSockets
    \/ UdpSpawnTasks

UdpBindSpec == UdpBindInit /\ [][UdpBindNext]_vars

\* ---------------------------------------------- listen backlog, tuning
\* `const DEFAULT: usize = 128`
DEFAULT == 128

\* the constant of `socket.listen(1024)`
ListenBacklog == 1024

I32Max == Pow2(I32Bits - 1) - 1
UsizeMaxWide == Pow2(2 * I32Bits) - 1

DigitValue == [c \in {"0", "1", "2", "3", "4", "5", "6", "7", "8", "9"} |->
                 CASE c = "0" -> 0 [] c = "1" -> 1 [] c = "2" -> 2
                   [] c = "3" -> 3 [] c = "4" -> 4 [] c = "5" -> 5
                   [] c = "6" -> 6 [] c = "7" -> 7 [] c = "8" -> 8
                   [] c = "9" -> 9]

\* the digits of usize::from_str, most significant first, after the
\* value `acc` of the digits before them: None (the empty set) on a
\* character that is not a digit and on overflow
RECURSIVE parse_digits(_, _)
parse_digits(str, acc) ==
    IF str = <<>> THEN {acc}
    ELSE IF Head(str) \notin DOMAIN DigitValue THEN {}
    ELSE IF acc * 10 + DigitValue[Head(str)] > UsizeMaxWide THEN {}
    ELSE parse_digits(Tail(str), acc * 10 + DigitValue[Head(str)])

\* `v.parse::<usize>().ok()`: an optional `+`, then at least one digit,
\* nothing else; white space is not skipped
parse_usize(str) ==
    LET digits == IF str # <<>> /\ Head(str) = "+" THEN Tail(str) ELSE str
    IN  IF digits = <<>> THEN {} ELSE parse_digits(digits, 0)

\* values of the environment variable: not set (the empty set) or set to
\* a string
EnvValues ==
    {{}} \cup {{v} : v \in {<<>>, <<"1", "6">>, <<" ", "1", "6">>,
                           <<"+", "1", "6">>, <<"-", "1">>, <<"e">>, <<"0">>,
                           <<"5", "0", "0", "0">>,
                           <<"9", "9", "9", "9", "9", "9", "9", "9", "9">>}}

\* contents of /proc/sys/net/core/somaxconn: no such file (the empty
\* set) or a string
SysValues ==
    {{}} \cup {{v} : v \in {<<"4", "0", "9", "6", " ">>, <<"6", "4", " ">>,
                           <<"e">>, <<>>, <<"9", "0", "0", "0", " ">>}}

\* read_sys_default: `fs::read_to_string(path).ok()
\*     .and_then(|s| s.trim().parse::<usize>().ok())`
read_sys_default(file) ==
    IF file = {} THEN {} ELSE parse_usize(trim(CHOOSE v \in file : TRUE))

\* env_or_sys: `std::env::var(env_key).ok().and_then(|v| v.parse().ok())
\*     .or_else(|| read_sys_default(sys_path))`
env_or_sys(env, file) ==
    LET fromEnv == IF env = {} THEN {} ELSE parse_usize(CHOOSE v \in env : TRUE)
    IN  IF fromEnv # {} THEN fromEnv ELSE read_sys_default(file)

\* the file SOMAXCONN_PATH names: the kernel tunable on Linux, the path
\* "" elsewhere, which cannot be read
SomaxconnFile(os, file) == IF os = "linux" THEN file ELSE {}

\* tcp_backlog: `env_or_sys(..).unwrap_or(DEFAULT)`, then try_into i32,
\* i32::MAX when the value does not fit
tcp_backlog(env, os, file) ==
    LET opt == env_or_sys(env, SomaxconnFile(os, file))
        chosen == IF opt = {} THEN DEFAULT ELSE CHOOSE v \in opt : TRUE
    IN  IF chosen <= I32Max THEN chosen ELSE I32Max

\* bind_tcp_listener has bound a socket, in a process whose environment
\* has TCP_BACKLOG as `env`, on a system `os` with the tunable `file`
ListenInit ==
    /\ policy = [max_attempts |-> {}, base_delay |-> 0]
    /\ NoSupervisor
    /\ ifc = Off
    /\ dcall = Off
    /\ bnd = Off
    /\ tcp = Off
    /\ udp = Off
    /\ ubnd = Off
    /\ lsn \in [pc : {"bound"}, env : EnvValues, os : {"linux", "other"},
                file : SysValues, backlog : {{}}]

\* `socket.listen(1024)?` succeeds
Listen ==
    /\ lsn.pc = "bound"
    /\ lsn' = [lsn EXCEPT !.pc = "listening", !.backlog = {ListenBacklog}]
    /\ UNCHANGED <<dcall, bnd, tcp, udp, ifc, ubnd>>
    /\ UNCHANGED <<supVars, workerVars>>

\* `socket.listen(1024)?` fails
ListenFails ==
    /\ lsn.pc = "bound"
    /\ lsn' = [lsn EXCEPT !.pc = "failed"]
    /\ UNCHANGED <<dcall, bnd, tcp, udp, ifc, ubnd>>
    /\ UNCHANGED <<supVars, workerVars>>

ListenNext == Listen \/ ListenFails

ListenSpec == ListenInit /\ [][ListenNext]_vars

\* ================================================================ claims

\* invocations a policy with max_attempts = Some(k) allows: the first
\* invocation is made before the budget is looked at
Budget(k) == IF k = 0 THEN 1 ELSE k

\* C1 (amended): with max_attempts = Some(k), a worker is Exhausted after
\* exactly k failed loop invocations when k >= 1 and after exactly one when
\* k = 0, and it never starts an invocation beyond that number.
C1_ExhaustedAfterBudget ==
    \A w \in Workers : \A k \in policy.max_attempts :
        /\ invocations[w] <= Budget(k)
        /\ wstate[w] = "Exhausted" =>
               invocations[w] = Budget(k) /\ attempts[w] = Budget(k)

C1_Witness ==
    \E w \in Workers :
        /\ policy.max_attempts = {2}
        /\ wstate[w] = "Exhausted"
        /\ invocations[w] = 2

\* C1 as stated: for every k, k = 0 included, Exhausted comes after exactly
\* k failed invocations and no (k+1)-th invocation is started.
C1_Original ==
    \A w \in Workers : \A k \in policy.max_attempts :
        /\ invocations[w] <= k
        /\ wstate[w] = "Exhausted" => invocations[w] = k

\* C2 as stated: a worker that fails on every invocation has been restarted
\* (invoked again after a failure) exactly max_attempts times when it stops.
C2_RestartsEqualMaxAttempts ==
    \A w \in Workers : \A k \in policy.max_attempts :
        wstate[w] = "Exhausted" => invocations[w] - 1 = k

\* C3 as stated: once a worker's token is cancelled the worker never begins
\* another invocation of its runtime loop.
C3_NoInvocationAfterCancel ==
    [][\A w \in Workers :
          (cancelled[w] /\ invocations[w] >= 1) =>
              invocations'[w] = invocations[w]]_vars

\* C4 as stated: a worker cancelled while BackingOff goes to Stopped and
\* does not re-enter Running.
C4_CancelledBackoffStops ==
    [][\A w \in Workers :
          (wstate[w] = "BackingOff" /\ cancelled[w]) => wstate'[w] # "Running"]_vars

\* C5: run() with no registered service returns Ok at once; it never waits
\* for the interrupt signal.
C5_EmptyRunReturnsAtOnce ==
    Len(tasks) = 0 =>
        /\ supPc \in {"building", "returned"}
        /\ supPc = "returned" => (result = "Ok" /\ ~sigint)

C5_Witness == Len(tasks) = 0 /\ supPc = "returned" /\ result = "Ok"

\* C6: once the interrupt has been received, run() returns Ok whatever the
\* outcomes of the workers.
C6_NoWorkerErrorSurfaced ==
    (sigint /\ supPc = "returned") => result = "Ok"

C6_Witness ==
    /\ sigint
    /\ supPc = "returned"
    /\ \E w \in Workers : wstate[w] = "Exhausted"
    /\ \E w \in Workers : wstate[w] = "Aborted"

\* C7: tasks are force-aborted during shutdown only after the root token was
\* cancelled and the grace period elapsed with a task still unfinished; when
\* all tasks finish within the grace period none is aborted.
C7_AbortOnlyAfterGrace ==
    /\ supPc = "aborting" => (token /\ graceElapsed)
    /\ forced => (token /\ graceElapsed)
    /\ (token /\ \E w \in Workers : wstate[w] = "Aborted") => forced

C7_Witness ==
    /\ forced
    /\ graceElapsed
    /\ \E w \in Workers : wstate[w] = "Aborted"
    /\ \E w \in Workers : wstate[w] = "Stopped"

\* C8: after the interrupt is delivered run() eventually returns, even when
\* worker tasks never finish.
C8_RunEventuallyReturns == sigint ~> (supPc = "returned")

C8_Witness ==
    /\ sigint
    /\ supPc = "returned"
    /\ \A w \in Workers : wstate[w] = "Aborted" /\ cancelled[w]

\* C9 (amended): with at least one service, before the interrupt is
\* delivered run() cancels no worker, and it returns only with the error of
\* failing to install the interrupt handler; finished workers do not wake it.
C9_BlocksUntilInterrupt ==
    (~sigint /\ Len(tasks) > 0) =>
        /\ ~token
        /\ \A w \in Workers : ~cancelled[w]
        /\ supPc = "returned" => result = "Err"

C9_Witness ==
    /\ supPc = "awaiting"
    /\ ~sigint
    /\ Workers # {}
    /\ \A w \in Workers : wstate[w] \in {"Stopped", "Exhausted"}

\* C9 as stated: with at least one service run() neither returns nor
\* cancels a worker before the interrupt is delivered.
C9_Original ==
    (~sigint /\ Len(tasks) > 0) =>
        /\ supPc # "returned"
        /\ ~token
        /\ \A w \in Workers : ~cancelled[w]

\* C10: a step in which a worker handles a failure (its attempt counter
\* moves, it goes to BackingOff or to Exhausted) leaves the state, attempt
\* counter, invocation count and token of every other worker unchanged.
C10_FailureIsolation ==
    [][\A w \in Workers :
          (\/ attempts'[w] # attempts[w]
           \/ (wstate[w] = "Running" /\ wstate'[w] \in {"BackingOff", "Exhausted"}))
          => \A v \in Workers \ {w} :
                 /\ wstate'[v] = wstate[v]
                 /\ attempts'[v] = attempts[v]
                 /\ invocations'[v] = invocations[v]
                 /\ cancelled'[v] = cancelled[v]]_vars

C10_Witness ==
    \E w, v \in Workers :
        /\ wstate[w] = "Exhausted"
        /\ wstate[v] = "Running"
        /\ invocations[v] >= 2
        /\ attempts[v] < attempts[w]

\* C11 as stated: cancelling the root token cancels every worker's token,
\* and a worker that is then still Running or BackingOff ends in Stopped
\* (so it does not end Exhausted).
C11_CancelledWorkerStops ==
    /\ [](token => \A w \in Workers : cancelled[w])
    /\ [][\A w \in Workers :
             (token /\ wstate[w] \in {"Running", "BackingOff"}) =>
                 wstate'[w] # "Exhausted"]_vars

ExactDelay(base, n) ==
    IF base = 0 THEN 0
    ELSE IF n >= 7 THEN DelayCapSecs
    ELSE Min(base * Pow2(SatSub1(n)), DelayCapSecs)

\* C13 as stated: for every base delay and every attempt n >= 1 of the
\* counter's range, delay(n) does not panic and returns exactly
\* min(base_delay * 2^(n-1), 60 s).
C13_DelayExact ==
    /\ dcall.pc # "panicked"
    /\ dcall.pc = "returned" =>
           dcall.value = ExactDelay(policy.base_delay, dcall.attempt)

\* C14 as stated: delay(n) never exceeds 60 s and delay(n) <= delay(n + 1)
\* for every n >= 1 of the counter's range.
C14_DelayMonotoneBounded ==
    dcall.pc = "returned" =>
        /\ dcall.value <= DelayCapSecs
        /\ \A v \in dcall.last : v <= dcall.value

\* C15 as stated: delay(1) equals base_delay.
C15_Original ==
    (dcall.pc = "returned" /\ dcall.attempt = 1) =>
        dcall.value = policy.base_delay

\* C15 (amended): delay(1) does not panic and equals
\* min(base_delay, 60 s); it is base_delay exactly when base_delay <= 60 s.
C15_DelayOneIsCappedBase ==
    dcall.pc # "off" /\ dcall.attempt = 1 =>
        /\ dcall.pc # "panicked"
        /\ dcall.pc = "returned" =>
               /\ dcall.value = Min(policy.base_delay, DelayCapSecs)
               /\ (dcall.value = policy.base_delay) <=>
                      (policy.base_delay <= DelayCapSecs)

C15_Witness ==
    /\ dcall.pc = "returned"
    /\ dcall.attempt = 1
    /\ policy.base_delay > DelayCapSecs
    /\ dcall.value = DelayCapSecs

\* C16: resolve_addrs is defined for every mode, port and interface and
\* its result is not empty: Specific(ip) gives [ip:port]; BindAll gives
\* [0.0.0.0:port, [::]:port]; PreferInterface gives the interface's IPv4
\* addresses in order, then its IPv6 addresses in order, or
\* [0.0.0.0:port] when the interface has neither.
C16_ResolveAddrsExact ==
    bnd.pc \in {"binding", "bound", "failed", "listening"} =>
        LET n4 == Len(bnd.iface.inet)
            n6 == Len(bnd.iface.inet6)
        IN  /\ Len(bnd.addrs) >= 1
            /\ \A k \in 1..Len(bnd.addrs) : bnd.addrs[k].port = bnd.port
            /\ bnd.mode.kind = "Specific" =>
                   /\ Len(bnd.addrs) = 1
                   /\ bnd.addrs[1].ip = bnd.mode.ip
            /\ bnd.mode.kind = "BindAll" =>
                   /\ Len(bnd.addrs) = 2
                   /\ bnd.addrs[1].ip = Wild4
                   /\ bnd.addrs[2].ip = Wild6
            /\ (bnd.mode.kind = "PreferInterface" /\ n4 + n6 = 0) =>
                   /\ Len(bnd.addrs) = 1
                   /\ bnd.addrs[1].ip = Wild4
            /\ (bnd.mode.kind = "PreferInterface" /\ n4 + n6 > 0) =>
                   /\ Len(bnd.addrs) = n4 + n6
                   /\ \A k \in 1..n4 : bnd.addrs[k].ip = bnd.iface.inet[k]
                   /\ \A k \in 1..n6 : bnd.addrs[n4 + k].ip = bnd.iface.inet6[k]

C16_Witness ==
    /\ bnd.pc = "binding"
    /\ bnd.mode.kind = "PreferInterface"
    /\ bnd.iface.inet = <<>>
    /\ bnd.iface.inet6 = <<>>
    /\ bnd.addrs = <<SocketAddr(Wild4, bnd.port)>>

\* C17: bind() is called on the candidates in order, a failed bind() is
\* followed by the next candidate, and bind_tcp_listener returns
\* NoAddrAvailable exactly when bind() was called on every candidate and
\* failed on each.
C17_BindInOrderNoAddrIffAllFailed ==
    bnd.pc \in {"binding", "bound", "failed", "listening"} =>
        /\ Len(bnd.tried) <= Len(bnd.addrs)
        /\ \A k \in 1..Len(bnd.tried) : bnd.tried[k] = bnd.addrs[k]
        /\ (bnd.pc = "binding" /\ bnd.bound = {}) =>
               bnd.i = Len(bnd.tried) + 1
        /\ (bnd.result = "NoAddrAvailable") <=>
               /\ bnd.pc = "failed"
               /\ Len(bnd.tried) = Len(bnd.addrs)
               /\ bnd.bound = {}

C17_Witness ==
    /\ bnd.pc = "failed"
    /\ bnd.result = "NoAddrAvailable"
    /\ Len(bnd.addrs) = 3
    /\ bnd.tried = bnd.addrs

\* C18: with Specific(ip) the only address bind() is ever called on is
\* ip:port; when that bind() fails run_tcp fails (NoAddrAvailable) and
\* nothing else is tried or bound.
C18_SpecificBindsOnlyThatAddress ==
    (bnd.pc # "off" /\ bnd.mode.kind = "Specific") =>
        /\ Len(bnd.tried) <= 1
        /\ \A k \in 1..Len(bnd.tried) :
               bnd.tried[k] = SocketAddr(bnd.mode.ip, bnd.port)
        /\ bnd.bound \subseteq {SocketAddr(bnd.mode.ip, bnd.port)}
        /\ bnd.pc = "listening" => bnd.bound = {SocketAddr(bnd.mode.ip, bnd.port)}
        /\ (Len(bnd.tried) = 1 /\ bnd.bound = {}) =>
               /\ bnd.pc \in {"binding", "failed"}
               /\ bnd.pc = "failed" => bnd.result = "NoAddrAvailable"
               /\ ~ENABLED BindSucceeds

C18_Witness ==
    /\ bnd.pc = "failed"
    /\ bnd.mode.kind = "Specific"
    /\ bnd.iface.inet # <<>>
    /\ bnd.tried = <<SocketAddr(bnd.mode.ip, bnd.port)>>
    /\ bnd.bound = {}
    /\ bnd.result = "NoAddrAvailable"

\* C19: the accept loop of run_tcp is never inside a handler: whenever a
\* connection waits in the listen queue the loop can accept it, whatever
\* the handlers of the connections accepted before are doing (running,
\* never returning, or finished with the connection closed).
C19_AcceptNeverWaitsForHandler ==
    tcp.pc # "off" =>
        /\ tcp.pc = "accepting"
        /\ tcp.backlog # <<>> => ENABLED Accept

C19_Witness ==
    /\ tcp.pc = "accepting"
    /\ tcp.handler[1] = "running"
    /\ tcp.handler[2] = "done"
    /\ tcp.handler[3] = "running"
    /\ tcp.backlog = <<4>>
    /\ ENABLED Accept

\* C20 as stated: a socket's receive task is never held up by a callback:
\* while its task has not ended, a datagram waiting on socket s can be
\* received and dispatched even if an earlier callback of s has not
\* returned.
C20_RecvLoopNeverWaitsForCallback ==
    udp.pc # "off" =>
        \A s \in Sockets :
            (/\ udp.sock[s].pc # "ended"
             /\ udp.sock[s].received < udp.sock[s].arrived) =>
                ENABLED RecvFrom(s)

C27_OkStopsForGood ==
    [][\A w \in Workers :
          /\ (wstate[w] = "Running" /\ fut[w] = "ok") =>
                 /\ wstate'[w] \in {"Running", "Stopped", "Aborted"}
                 /\ wstate'[w] = "Running" => fut'[w] = "ok"
                 /\ invocations'[w] = invocations[w]
                 /\ attempts'[w] = attempts[w]
          /\ wstate[w] = "Stopped" =>
                 /\ wstate'[w] = "Stopped"
                 /\ invocations'[w] = invocations[w]]_vars

C27_Witness ==
    \E w \in Workers :
        /\ wstate[w] = "Stopped"
        /\ fut[w] = "ok"
        /\ ~cancelled[w]
        /\ attempts[w] >= 1
        /\ policy.max_attempts = {}

C30_SocketFailureTriesNext ==
    (bnd.pc = "failed" /\ bnd.result = "Io" /\ bnd.bound = {}) =>
        bnd.i >= Len(bnd.addrs)

\* C21 as stated: cancelling a worker never interrupts a callback that is
\* in flight: no per-connection and no per-packet callback that has
\* started is ever aborted before it returns.
C21_InFlightCallbackNotInterrupted ==
    /\ tcp.pc # "off" =>
           \A c \in Conns : tcp.handler[c] \in {"none", "running", "done"}
    /\ udp.pc # "off" =>
           \A s \in Sockets : udp.sock[s].pc # "callback_aborted"

\* C22: run_udp returns Ok(()) once every receive task has ended, although
\* a task only ever ends through a receive error; the worker then takes
\* the Ok branch: it counts no failure, makes no further invocation and
\* can only stay Running or become Stopped.
C22_DatagramLoopEndsAsSuccess ==
    udp.pc # "off" =>
        \A w \in Workers :
            /\ attempts[w] = 0
            /\ invocations[w] = 1
            /\ udp.pc = "returned" =>
                   /\ \A s \in Sockets : udp.sock[s].pc = "ended"
                   /\ fut[w] \in {"pending", "ok"}
                   /\ wstate[w] \in {"Running", "Stopped"}
                   /\ (wstate[w] = "Running" /\ fut[w] = "pending") =>
                          ENABLED DatagramResolves(w)

C22_Witness ==
    \E w \in Workers :
        /\ udp.pc = "returned"
        /\ \A s \in Sockets : udp.sock[s].pc = "ended"
        /\ policy.max_attempts = {}
        /\ ~cancelled[w]
        /\ fut[w] = "ok"
        /\ wstate[w] = "Stopped"

\* C23: after a failed accept() the accept loop is still accepting (or has
\* been dropped by a cancellation): run_tcp has not returned, the worker
\* has no failure to handle and is still Running, and a connection that
\* waits in the listen queue can be accepted and dispatched.
C23_AcceptErrorNotFatal ==
    (tcp.pc # "off" /\ tcp.errs >= 1) =>
        \A w \in Workers :
            /\ tcp.pc \in {"accepting", "dropped"}
            /\ tcp.pc = "dropped" => cancelled[w]
            /\ tcp.pc = "accepting" =>
                   /\ wstate[w] = "Running"
                   /\ fut[w] = "pending"
                   /\ tcp.backlog # <<>> => ENABLED Accept

C23_Witness ==
    \E w \in Workers :
        /\ tcp.pc = "accepting"
        /\ tcp.errs = 2
        /\ tcp.handler[1] = "done"
        /\ tcp.handler[2] = "running"
        /\ tcp.backlog = <<3>>
        /\ wstate[w] = "Running"
        /\ ~cancelled[w]

\* C29: the future of run_tcp never resolves to Ok: it resolves to the
\* error of the binding phase or not at all, so a stream worker that is
\* Stopped has been cancelled.
C29_StreamLoopNeverSucceeds ==
    bnd.pc # "off" =>
        \A w \in Workers :
            /\ fut[w] # "ok"
            /\ fut[w] = "err" => bnd.pc \in {"reported", "dropped"} /\ tcp = Off
            /\ tcp.pc = "accepting" => fut[w] = "pending"
            /\ wstate[w] = "Stopped" => cancelled[w]

C29_Witness ==
    \E w \in Workers :
        /\ wstate[w] = "Stopped"
        /\ cancelled[w]
        /\ attempts[w] = 1
        /\ tcp.pc = "dropped"
        /\ tcp.handler[1] = "running"

\* C24 as stated: from_str fails with InvalidInterfaceName, without any
\* OS call, for every name that is empty or only white space, and with
\* InterfaceNotFound for every other name for which the system reports no
\* IPv4 and no IPv6 address.
C24_InterfaceErrors ==
    ifc.pc = "done" =>
        /\ trim(ifc.name) = <<>> =>
               ifc.result = "InvalidInterfaceName" /\ ifc.oscalls = 0
        /\ (/\ trim(ifc.name) # <<>>
            /\ ~\E k \in 1..Len(ifc.os) :
                   ifc.os[k].name = ifc.name /\ ifc.os[k].kind \in {"V4", "V6"})
               => ifc.result = "InterfaceNotFound"

\* C25: an interface returned by from_str has an IPv4 or an IPv6 address
\* and a hardware address; the hardware address is one the OS reported
\* for it when there is one, and otherwise its first byte has the low
\* bits 10.
C25_InterfaceHasAddressAndMac ==
    (ifc.pc = "done" /\ ifc.result = "Ok") =>
        LET reported == {ifc.os[k].mac : k \in
                            {j \in 1..Len(ifc.os) :
                                 ifc.os[j].name = ifc.name /\ ifc.os[j].kind = "Mac"}}
        IN  /\ ifc.inet # <<>> \/ ifc.inet6 # <<>>
            /\ Cardinality(ifc.mac) = 1
            /\ IF reported # {} THEN ifc.mac \subseteq reported
               ELSE \A m \in ifc.mac : m % 4 = 2

C25_Witness ==
    /\ ifc.pc = "done"
    /\ ifc.result = "Ok"
    /\ ifc.inet = <<>>
    /\ ifc.inet6 # <<>>
    /\ \A k \in 1..Len(ifc.os) : ifc.os[k].kind # "Mac"
    /\ ifc.mac = {254}

\* C31: a failed bind() is not an error of bind_udp_sockets: when the
\* loops have ended, run_udp runs on exactly the sockets whose bind()
\* succeeded if there is one, and it fails with NoAddrAvailable exactly
\* when the loops have ended and no socket was bound.
C31_PartialBindRuns ==
    ubnd.pc # "off" =>
        LET attempts_ == Len(ubnd.addrs) * ubnd.cores
        IN  /\ (ubnd.result = "NoAddrAvailable") <=>
                   /\ ubnd.pc = "failed"
                   /\ ubnd.a > Len(ubnd.addrs)
                   /\ ubnd.failed = attempts_
            /\ (ubnd.pc = "binding" /\ ubnd.a > Len(ubnd.addrs)
                    /\ ubnd.failed < attempts_) =>
                   /\ ENABLED UdpSpawnTasks
                   /\ ~ENABLED UdpNoSockets
            /\ ubnd.pc = "joining" =>
                   /\ ubnd.result = "Ok"
                   /\ Len(ubnd.sockets) = attempts_ - ubnd.failed
                   /\ ubnd.tasks = Len(ubnd.sockets)
                   /\ ubnd.tasks >= 1

C31_Witness ==
    /\ ubnd.pc = "joining"
    /\ Len(ubnd.addrs) = 2
    /\ ubnd.failed >= 1
    /\ \A j \in 1..Len(ubnd.sockets) : ubnd.sockets[j].addr = ubnd.addrs[2]

\* C32: when no bind() failed, run_udp has cores sockets on every
\* resolved address, cores * |addrs| in all, and one receive task per
\* socket.
C32_SocketsPerAddressTimesCores ==
    (ubnd.pc = "joining" /\ ubnd.failed = 0) =>
        /\ Len(ubnd.sockets) = ubnd.cores * Len(ubnd.addrs)
        /\ \A i \in 1..Len(ubnd.addrs) :
               Cardinality({j \in 1..Len(ubnd.sockets) :
                               ubnd.sockets[j].addr = ubnd.addrs[i]}) = ubnd.cores
        /\ ubnd.tasks = Len(ubnd.sockets)

C32_Witness ==
    /\ ubnd.pc = "joining"
    /\ ubnd.failed = 0
    /\ ubnd.cores = 2
    /\ Len(ubnd.addrs) = 2
    /\ ubnd.tasks = 4

\* C33 as stated: every socket given to the receive loop is a member of
\* every group of multicast_addrs.
C33_EverySocketJoinedEveryGroup ==
    ubnd.pc = "joining" =>
        \A j \in 1..Len(ubnd.sockets) :
            \A g \in 1..Len(ubnd.mcast) :
                join_multicast(ubnd.mcast[g], ubnd.iface) \in ubnd.sockets[j].joined

\* C34: a receive error on one socket ends the receive task of that
\* socket only: the step leaves every other socket's task as it was, a
\* task that has not ended can still receive a waiting datagram and
\* return from its callback whatever the other tasks did, and run_udp
\* returns only when every task has ended.
C34_RecvErrorEndsOnlyThatTask ==
    /\ [][(udp.pc # "off" /\ udp'.pc # "off") =>
            /\ \A s \in Sockets :
                   (udp.sock[s].pc # "ended" /\ udp'.sock[s].pc = "ended") =>
                       \A t \in Sockets \ {s} : udp'.sock[t] = udp.sock[t]
            /\ (udp.pc = "joining" /\ udp'.pc = "returned") =>
                   \A s \in Sockets : udp.sock[s].pc = "ended"]_vars
    /\ [](udp.pc = "joining" =>
            /\ \A t \in Sockets :
                   /\ (udp.sock[t].pc = "receiving"
                       /\ udp.sock[t].received < udp.sock[t].arrived) =>
                          ENABLED RecvFrom(t)
                   /\ udp.sock[t].pc = "in_callback" => ENABLED CallbackReturn(t)
            /\ (\E t \in Sockets : udp.sock[t].pc # "ended") => ~ENABLED JoinedAll)

C34_Witness ==
    /\ udp.pc = "joining"
    /\ udp.sock[1].pc = "ended"
    /\ udp.sock[1].arrived = 0
    /\ udp.sock[2].pc = "in_callback"
    /\ udp.sock[2].returned = 1

\* C35: on every socket the k-th callback started is the one of the k-th
\* datagram that arrived on that socket, and it is given that datagram's
\* peer and that socket.
C35_CallbacksInArrivalOrderPerSocket ==
    udp.pc # "off" =>
        \A s \in Sockets :
            /\ Len(udp.sock[s].calls) = udp.sock[s].received
            /\ Len(udp.sock[s].calls) <= Len(udp.sock[s].peers)
            /\ \A k \in 1..Len(udp.sock[s].calls) :
                   /\ udp.sock[s].calls[k].peer = udp.sock[s].peers[k]
                   /\ udp.sock[s].calls[k].sock = s

\* two datagrams of different peers were dispatched in order on socket 2
\* while a datagram is still waiting on socket 1
C35_Witness ==
    /\ udp.pc = "joining"
    /\ udp.sock[2].calls = <<[peer |-> "p1", sock |-> 2], [peer |-> "p2", sock |-> 2]>>
    /\ udp.sock[1].peers = <<"p2">>
    /\ udp.sock[1].calls = <<>>

\* C36 as stated: the backlog a listener is given is the value resolved
\* by precedence (TCP_BACKLOG if set and parseable, else the kernel
\* tunable on Linux, else 128), clamped to the largest i32.
C36_BacklogResolvedByPrecedence ==
    lsn.pc = "listening" =>
        lsn.backlog = {tcp_backlog(lsn.env, lsn.os, lsn.file)}

C37_OneInvocationAtATime ==
    /\ [][\A w \in Workers :
            invocations'[w] # invocations[w] =>
                /\ invocations'[w] = invocations[w] + 1
                /\ wstate[w] = "BackingOff"
                /\ fut[w] = "err"
                /\ ~PortHeld(bnd)
                /\ tcp = Off
                /\ udp = Off]_vars
    /\ [](\A w \in Workers : (wstate[w] # "Running") => ~PortHeld(bnd))

C37_Witness ==
    /\ invocations = <<2>>
    /\ wstate = <<"Running">>
    /\ bnd.pc = "listening"
    /\ tcp.pc = "accepting"

\* C38: when run() has returned, with Ok or with the error of ctrl_c(),
\* every worker task has ended (finished by itself or aborted) and none
\* can take a further step.
C38_NoWorkerOutlivesRun ==
    supPc = "returned" =>
        \A w \in Workers :
            /\ wstate[w] \in Terminal
            /\ ~ENABLED Start(w)
            /\ ~ENABLED Restart(w)
            /\ ~ENABLED LoopFail(w)
            /\ ~ENABLED LoopComplete(w)
            /\ ~ENABLED Crash(w)

C38_Witness ==
    /\ supPc = "returned"
    /\ result = "Err"
    /\ ~token
    /\ Len(tasks) = 2
    /\ wstate[1] = "Aborted"
    /\ wstate[2] = "Exhausted"

\* C40: a handler task that runs is ended by its own return only, never
\* by a step of the worker or of the supervisor; the worker's stop on
\* cancellation, the end of the grace period wait and the forced abort
\* are possible whatever the handlers are doing.
C40_HandlersDetached ==
    /\ [][(tcp.pc # "off" /\ tcp'.pc # "off") =>
            \A c \in Conns :
                tcp.handler[c] = "running" =>
                    /\ tcp'.handler[c] \in {"running", "done"}
                    /\ tcp'.handler[c] = "done" =>
                           (wstate' = wstate /\ supPc' = supPc /\ tcp'.pc = tcp.pc)]_vars
    /\ [](tcp.pc # "off" =>
            /\ \A w \in Workers :
                   (wstate[w] = "Running" /\ cancelled[w]) => ENABLED DropLoop(w)
            /\ (supPc = "grace" /\ AllDone(wstate)) => ENABLED Graceful
            /\ supPc = "aborting" => ENABLED ForceAbortService
            /\ \A c \in Conns :
                   tcp.handler[c] = "running" => ENABLED HandlerFinish(c))

C40_Witness ==
    /\ supPc = "returned"
    /\ wstate = <<"Stopped">>
    /\ tcp.pc = "dropped"
    /\ \E c \in Conns : tcp.handler[c] = "running"
    /\ \E c \in Conns : tcp.handler[c] = "done"
====
